---------------------------- MODULE Spec2Model ----------------------------
(***************************************************************************)
(* A model of the load balancer of temora3/LoadBalancer:                   *)
(*   src/load-balancer/consistent_hash.py   the consistent-hash ring       *)
(*   src/load-balancer/load_balancer.py     the fleet, the HTTP handlers   *)
(*                                          and the health-check thread    *)
(*                                                                         *)
(* The ring object (class ConsistentHash) is the record ch with the        *)
(* object's fields; its methods are operators that take the object and     *)
(* return the object after the call together with the returned value.      *)
(* The fleet (class LoadBalancer and the Flask handlers) is a set of       *)
(* threads that step through their handlers, split at the I/O calls.       *)
(***************************************************************************)
EXTENDS Integers, Sequences, FiniteSets, TLC

VARIABLES
  ch,         \* lb.consistent_hash: [slots, virtual_servers, ring, servers, sorted_keys]
  last,       \* the last call made on the ring alone: its arguments, result and pre-state
  servers,    \* lb.servers: the keys of the dict, in insertion order
  containers, \* the orchestrator: the names of the containers that run and answer
  lock,       \* lb.lock: "free" or the thread that holds it
  pc,         \* where each thread is in its handler
  boot,       \* _initialize_servers: the loop variable i
  health,     \* _check_server_health: the snapshot, the loop index, failed_servers
  admin,      \* add_servers / remove_servers: n, hostnames, i, servers_to_remove
  route,      \* route_request: the server each router thread looked up
  reply,      \* the last HTTP reply sent: to which thread, with which status
  budget,     \* what the environment may still do: crashes, failed runs, admin requests
  lb,         \* the module global lb: the LoadBalancer instance assigned to it, if any
  instances,  \* the LoadBalancer instances built so far: [servers, ch, lock] of each
  handler     \* the Flask threads that serve the first requests: position and locals

(***************************************************************************)
(* Python's None as a ring cell or a returned server, and as a slot.       *)
(***************************************************************************)
None == "None"

NoSlot == -1

(***************************************************************************)
(* The names the model uses: the three start-up names of                   *)
(* _initialize_servers, the two hostnames the tests pass to /add, and two  *)
(* values of _generate_random_name.                                        *)
(***************************************************************************)
InitialNames == <<"Server_1", "Server_2", "Server_3">>

HostNames == {"TestServer1", "TestServer2"}

RandomNames == <<"Server_aB3dE5gH", "Server_Zx9Qw2Er">>

Range(seq) == {seq[i] : i \in DOMAIN seq}

Names == Range(InitialNames) \cup HostNames \cup Range(RandomNames)

(***************************************************************************)
(* int(sha256("{server_id}:{j}").hexdigest(), 16) for j = 0..199, as       *)
(* computed by hashlib, kept modulo DigestModulus = 2^9 * 3^2 * 5 * 7 * 11 *)
(* so that "% slots" below gives the code's value for every ring size      *)
(* that divides it (3..12, 14, 15, 16, ..., 512).                          *)
(***************************************************************************)
DigestModulus == 512 * 9 * 5 * 7 * 11

Sha256Virtual(server_id) ==
  IF server_id = "Server_1" THEN <<
    819896, 244415, 268067, 1303493, 949053, 100325, 1631152, 1682456, 104291, 1052779,
    1084451, 55639, 170944, 365606, 185791, 1236857, 344784, 323444, 456387, 937299, 642008,
    72718, 672657, 1474060, 1560338, 540805, 631505, 2278, 997896, 589249, 274163, 126359,
    1155348, 573562, 1241497, 1119321, 1621171, 1455057, 864043, 788363, 342547, 1478190,
    1009639, 642076, 665529, 1164260, 519304, 1536794, 1232551, 356538, 1451033, 1593676,
    1551116, 919632, 1029616, 152299, 665093, 1614202, 410026, 74791, 1555541, 1335950, 82447,
    312602, 441398, 900903, 681830, 138386, 1305630, 1703009, 1344747, 1013974, 1047241,
    887513, 1153343, 1596490, 830456, 866066, 769279, 964493, 1407924, 512263, 1558315,
    1094843, 957808, 1224555, 432061, 699416, 1691772, 349432, 1440141, 960823, 199895,
    1660097, 380155, 1136981, 836136, 413681, 1242620, 1400875, 1626252, 1063543, 414637,
    262824, 1533679, 637891, 281608, 502633, 210036, 1148648, 555896, 1446192, 1702080,
    1163247, 1457950, 1432267, 1396088, 765557, 1423421, 1081095, 207619, 953334, 261814,
    85479, 207435, 905213, 223774, 222782, 539939, 914274, 634725, 655727, 1655561, 1565367,
    1522635, 658155, 768442, 1089669, 561641, 1613448, 1233798, 46510, 787329, 379149, 1005191,
    226544, 91246, 739536, 496176, 1050954, 1315426, 945982, 1007023, 104312, 751885, 41686,
    1695634, 252757, 1411354, 1166004, 497679, 476771, 1470160, 1482526, 1478903, 240174,
    1632179, 1774046, 1035595, 469039, 36213, 1478472, 983949, 830513, 1672602, 1320129,
    1350857, 1100275, 317043, 1523275, 1184838, 5497, 1112930, 1348072, 994908, 444930,
    1313687, 67245, 1164587, 822517, 1391406, 994776, 489725, 135142, 1406372, 713097, 286046,
    1434985, 1482741, 1122553 >>
  ELSE
  IF server_id = "Server_2" THEN <<
    1173918, 1414040, 388929, 1258623, 1070946, 961434, 1526864, 1307629, 1382389, 1473980,
    880750, 1739379, 184660, 1019076, 1712383, 714743, 1566009, 462480, 1771569, 1151779,
    1006762, 1110252, 241209, 1457597, 1500774, 1248125, 1087550, 1440095, 232161, 1585691,
    815331, 1656817, 322805, 1728437, 1153649, 1039382, 472303, 668065, 532954, 928508,
    1481611, 907784, 1394778, 1112797, 78200, 217181, 214360, 773274, 1523233, 1603552,
    1556147, 687159, 543672, 1754844, 497550, 1025094, 491501, 1397346, 558220, 1025710,
    1557299, 1063803, 262707, 820086, 1471608, 1665442, 1494900, 1702545, 1570787, 872417,
    395753, 58370, 770601, 874444, 1198508, 858477, 403745, 1425625, 1722544, 681650, 376238,
    1233358, 630654, 966698, 1443253, 1345076, 1533393, 513874, 1458393, 1214387, 20386,
    345627, 848891, 1753312, 312830, 1242631, 448798, 368492, 1240709, 1418735, 1577151, 8318,
    1159638, 1487176, 1748582, 298206, 1104247, 1626256, 675812, 810732, 553496, 428863,
    1284501, 723543, 357395, 560182, 1741468, 495777, 595229, 284344, 1146887, 738257, 704349,
    1177193, 848532, 1572309, 905918, 1181552, 564400, 1633140, 1486376, 170198, 955123,
    952974, 1004265, 329944, 284462, 497148, 1245020, 629224, 1253104, 269423, 1582716,
    1284092, 524617, 615020, 899696, 856843, 1562169, 1383118, 1457384, 607492, 1476229,
    105213, 66233, 865743, 616037, 478642, 1727782, 778227, 80745, 1075822, 1698208, 1608373,
    666147, 1544585, 345923, 1030071, 383494, 1741059, 311830, 1767966, 333820, 969536, 485621,
    1210639, 1506888, 763483, 883499, 759394, 226045, 975940, 861775, 793305, 37168, 1025735,
    263992, 985295, 1354062, 174048, 346268, 121969, 841920, 1136681, 1110710, 626134, 22986,
    1625194, 688227, 1251227 >>
  ELSE
  IF server_id = "Server_3" THEN <<
    631242, 1542283, 457220, 1005609, 670745, 1044647, 31727, 1086450, 758573, 1557283, 38668,
    765652, 1467426, 1097888, 1238471, 363671, 1589523, 1536532, 1351093, 173196, 1070262,
    1487997, 843437, 478800, 1436087, 248768, 1040228, 898159, 1768621, 494652, 143825, 67893,
    1308163, 1463303, 894271, 1475427, 107611, 88492, 1689829, 1261277, 1330819, 929522,
    1527991, 1130715, 978412, 1543692, 1647857, 1071773, 513841, 1028442, 1142275, 1139605,
    1451911, 20846, 1749014, 886274, 258748, 410801, 1621010, 1166805, 655789, 1472316,
    1118711, 1255857, 901319, 652096, 1261632, 1453103, 1232734, 419664, 1064800, 557978,
    813179, 56283, 1726039, 1026794, 1389681, 515015, 1500248, 1192868, 607504, 28449, 483166,
    1772088, 1735656, 642385, 1037022, 1203802, 1409444, 164990, 751710, 1528203, 1570004,
    1149738, 687775, 433697, 1086412, 1695603, 661338, 36687, 1432853, 894261, 1353759, 93525,
    935990, 506096, 989796, 665041, 1768033, 1403393, 1758133, 952425, 1522221, 1641956,
    874300, 1421886, 693909, 1131406, 1732786, 197259, 528262, 783185, 359564, 208250, 864613,
    304046, 1729922, 1082481, 1676947, 971129, 1688889, 1472575, 878364, 1185761, 1644655,
    237464, 963973, 1642580, 1367669, 1446247, 474203, 1164886, 1127332, 642982, 1471575,
    1648146, 72666, 1420996, 144827, 1091989, 1114426, 1065646, 135816, 827380, 351705,
    1179764, 1349494, 18600, 250043, 1656441, 1673127, 742423, 505065, 497350, 530632, 771336,
    739277, 85699, 1319782, 1650986, 1434837, 1277379, 1419050, 1316017, 1721904, 960829,
    1430476, 1483724, 931430, 1730576, 1306969, 785177, 1449124, 660803, 726338, 943471,
    1115450, 1105102, 1530643, 399391, 1147896, 309121, 357657, 1279466, 1697543, 380424,
    665457, 22301, 705235, 1177258 >>
  ELSE
  IF server_id = "TestServer1" THEN <<
    16786, 1044676, 1649081, 1561095, 1662852, 139674, 1273877, 425976, 1299221, 1554558,
    599587, 954433, 669014, 285013, 1536919, 15237, 272681, 1727890, 897436, 925715, 1101869,
    1021284, 985797, 24853, 236668, 1072395, 618743, 774167, 569650, 1153653, 1449076, 202386,
    1415155, 897241, 257611, 909489, 665502, 780576, 1593682, 1285002, 3754, 924402, 154416,
    1495139, 1080587, 1671587, 1068059, 530743, 718976, 66681, 880145, 61755, 803618, 338994,
    391030, 456419, 425059, 595883, 215544, 1215898, 1543717, 530355, 997846, 31982, 34244,
    396254, 433939, 1345094, 1179349, 347349, 927548, 187243, 1422989, 525144, 1695689, 788154,
    835329, 168548, 394689, 654058, 404282, 137104, 1694227, 1385986, 827269, 425698, 1266567,
    372479, 1710702, 318734, 1202660, 707989, 1162477, 917405, 845778, 1397974, 1099776,
    432352, 1767065, 98789, 1145255, 1620584, 1671421, 788049, 1599499, 274707, 1144751,
    1203477, 65968, 1255177, 189343, 1675992, 1320205, 723962, 928266, 1319497, 684824, 962596,
    733060, 145018, 1403553, 1722116, 950973, 1751821, 1307845, 891011, 192579, 1717318,
    1699436, 1537569, 1294223, 704527, 1408799, 431319, 881997, 822382, 987532, 1510308,
    269289, 1159672, 1436329, 1715527, 61790, 1526172, 1002363, 1372868, 843623, 383402,
    916582, 710903, 411259, 1359399, 1553217, 762540, 1427668, 1612331, 1728817, 413928,
    1323166, 904238, 690702, 18164, 326736, 430957, 424775, 490090, 1482583, 1652013, 1068366,
    1471281, 1268655, 974775, 573693, 533350, 975592, 730800, 790956, 583401, 1634913, 453055,
    417392, 957229, 199042, 1293535, 579768, 961524, 313806, 633474, 946875, 1099557, 752306,
    278410, 585542, 462924, 1603726, 773546, 1533726, 1445040, 1502852, 743489 >>
  ELSE
  IF server_id = "TestServer2" THEN <<
    1543376, 1005745, 1274475, 90207, 824861, 1125508, 1583054, 847520, 1521471, 462508,
    896888, 1112017, 64765, 1419788, 653051, 181119, 213528, 497670, 36356, 224573, 1070883,
    570361, 1338106, 543483, 76969, 1163434, 313234, 417920, 1724015, 1314042, 1382437,
    1703022, 1701482, 669846, 1057305, 1407739, 175015, 1355799, 1250670, 35742, 478791,
    687077, 478013, 267775, 1136324, 274219, 1151054, 1241963, 1279314, 1177669, 617834,
    1618657, 303496, 105375, 1598133, 169035, 796984, 1255519, 410014, 8902, 485848, 1366128,
    1446920, 51367, 689801, 700561, 388620, 557072, 219424, 1448591, 1183608, 1771207, 317358,
    647245, 1536455, 1675996, 1256212, 880868, 474517, 1442185, 1341620, 422551, 1128372,
    1658087, 831869, 984870, 22279, 1631624, 764071, 929200, 570252, 16366, 785444, 328282,
    512312, 1121687, 1131054, 817084, 1289787, 471485, 235, 1347212, 1402517, 1506822, 373604,
    1055839, 1399147, 391473, 662967, 1706571, 351706, 1003348, 990421, 1541304, 30214,
    1093701, 54560, 1752798, 26405, 569022, 930516, 1102009, 929337, 918633, 464663, 466897,
    511183, 823611, 1171114, 1550760, 844421, 1258869, 957097, 1376634, 854109, 606198,
    1285217, 1461283, 1764260, 915360, 185652, 272132, 1405765, 1458653, 786992, 752036,
    1040620, 55882, 383723, 308117, 252897, 633468, 172553, 1400393, 997393, 789928, 1747593,
    257829, 1077236, 139985, 941397, 1150586, 252870, 25472, 1711752, 703591, 877805, 161809,
    1030678, 1054417, 1271567, 1329093, 688754, 1051991, 344550, 678888, 705258, 1652678,
    77466, 1570489, 999507, 83703, 1089150, 544406, 891985, 736676, 1704166, 1517835, 416961,
    153086, 1759963, 711033, 1398413, 306140, 1488719, 482790, 767929, 1624992, 1140569,
    1686186 >>
  ELSE
  IF server_id = "Server_aB3dE5gH" THEN <<
    1472848, 1382817, 1741018, 747715, 1615075, 379144, 656009, 1099156, 50674, 1304778, 75684,
    361130, 787051, 770589, 1031290, 560712, 531810, 763371, 1456975, 1579159, 321327, 1674773,
    657399, 65272, 1020429, 1162191, 1122626, 1090601, 370872, 1291942, 1251087, 898205,
    719181, 44911, 284673, 1660790, 255280, 1496498, 1337431, 999675, 1336484, 190346, 809250,
    317096, 1066646, 1112413, 1052251, 1342890, 1162023, 124654, 176514, 174223, 620427,
    701426, 1228289, 1237735, 394492, 41157, 836789, 218252, 1026157, 807264, 1415242, 597231,
    709455, 19531, 1311609, 732239, 961241, 1326696, 824584, 1401631, 20533, 1191722, 186830,
    1184462, 1201420, 24687, 813350, 759932, 1297372, 1316821, 1142305, 108333, 81354, 1696438,
    1658679, 1136380, 620864, 566843, 594539, 1543704, 109201, 1438890, 268646, 374002, 340746,
    1565951, 580097, 1078157, 1700663, 1368171, 554527, 699774, 975217, 310586, 167047,
    1653997, 1383141, 888169, 1343181, 113775, 469313, 797880, 1611313, 1034241, 473941,
    315067, 1056771, 174422, 619200, 212793, 536550, 709185, 1166963, 1344746, 1549040, 114042,
    297443, 499881, 1056211, 1692944, 1531204, 313853, 846215, 90630, 577745, 1031849, 1021428,
    1012257, 622824, 596309, 1581502, 457963, 53973, 410457, 1107849, 361957, 1503854, 553210,
    81634, 397085, 92885, 1006618, 1716537, 575465, 334863, 328539, 964500, 236263, 527979,
    20152, 1090859, 300211, 566369, 779477, 1512743, 856281, 670838, 447804, 545955, 1535814,
    150983, 1501791, 1077558, 464647, 1513397, 1750071, 1691553, 973781, 1633681, 1248988,
    594429, 441510, 305614, 887387, 970669, 1033259, 608036, 558902, 1437836, 173322, 1016941,
    671581, 641871, 1577101, 357135, 663298, 692140, 466887 >>
  ELSE
  IF server_id = "Server_Zx9Qw2Er" THEN <<
    5593, 1221795, 235808, 1615969, 828119, 524353, 1327478, 1726053, 521973, 785327, 883808,
    982580, 928463, 811219, 833520, 1379710, 1730434, 1318044, 1468145, 1040948, 1068942,
    1541393, 277429, 791092, 998667, 843875, 916931, 327615, 373523, 422704, 516888, 1170433,
    1050843, 185616, 1611085, 1246134, 721105, 692, 1636523, 967225, 202703, 998533, 141140,
    1006461, 1358190, 179677, 868871, 313906, 1696294, 1111638, 1407438, 1558740, 296805,
    361098, 17587, 1693395, 722643, 41827, 586977, 1045956, 570148, 573543, 197738, 945623,
    1485516, 437795, 1361798, 325718, 842661, 878702, 512828, 44386, 1474794, 126201, 973916,
    1687009, 948303, 144651, 784429, 499618, 269843, 681215, 243378, 48950, 1479841, 1630257,
    1379015, 306871, 964405, 1725875, 362124, 1763171, 517947, 1446072, 116515, 787911, 591808,
    382672, 671086, 562296, 1046930, 1045174, 1059221, 1705996, 407750, 775575, 457917, 155991,
    925378, 1139364, 1718935, 1211840, 817484, 210012, 1317017, 374599, 1432787, 143415,
    908718, 1328455, 1623199, 1404282, 1360339, 1478451, 1582759, 1603296, 1329627, 280001,
    1227452, 351725, 119618, 331590, 780955, 1428479, 54875, 1090463, 1664806, 39851, 893423,
    1312684, 1539454, 958870, 1236876, 852133, 855306, 1327321, 955571, 1292463, 1700196,
    1272409, 235043, 1219579, 1382180, 1405339, 834722, 1755093, 515419, 1189040, 271898,
    700030, 19461, 901845, 1641226, 824335, 1099442, 653024, 165538, 45279, 1222643, 1125093,
    1044567, 1583765, 327712, 983932, 1456329, 567421, 1166990, 1721324, 369830, 904902,
    528779, 534610, 1771130, 462950, 219724, 708571, 1003231, 699497, 589044, 226317, 1319970,
    306690, 183721, 1356414, 1547583, 1698418, 887204, 478646, 1734218, 641480 >>
  ELSE << >>

(***************************************************************************)
(* The request ids the router draws (random.randint(100000, 999999)); the  *)
(* model keeps the first sixteen, with the double SHA-256 of               *)
(* _hash_request for each, modulo DigestModulus.                           *)
(***************************************************************************)
RequestIdLow == 100000

Sha256Request ==
  <<
    1214758, 554119, 712691, 1220917, 35420, 757727, 1684795, 1134263, 602454, 1462631, 722852,
    116281, 1676788, 1261948, 833917, 569282 >>

RequestIds == RequestIdLow .. (RequestIdLow + Len(Sha256Request) - 1)

(***************************************************************************)
(*                     class ConsistentHash                                *)
(***************************************************************************)

\* __init__: an empty ring of `slots` cells, no servers, no sorted keys.
ConsistentHash(slots, virtual_servers) ==
  [ slots           |-> slots,
    virtual_servers |-> virtual_servers,
    ring            |-> [i \in 0 .. slots - 1 |-> None],
    servers         |-> [s \in {} |-> << >>],
    sorted_keys     |-> << >> ]

\* _hash_request: the double SHA-256 of the request id, modulo slots.
_hash_request(self, request_id) ==
  Sha256Request[request_id - RequestIdLow + 1] % self.slots

\* _hash_virtual_server: SHA-256 of "{server_id}:{virtual_id}", modulo slots.
_hash_virtual_server(self, server_id, virtual_id) ==
  Sha256Virtual(server_id)[virtual_id + 1] % self.slots

\* A faulty _find_next_slot that scans from cell 0 instead of start_slot.
_find_next_slotFromZero(self, start_slot) ==
  LET free == {i \in 0 .. self.slots - 1 : self.ring[i] = None}
  IN  IF free = {} THEN NoSlot
      ELSE CHOOSE i \in free : \A k \in free : i <= k

\* A faulty _find_next_slot that stops at the end of the ring instead of
\* wrapping around.
_find_next_slotWithoutWrap(self, start_slot) ==
  LET free == {i \in start_slot .. self.slots - 1 : self.ring[i] = None}
  IN  IF free = {} THEN NoSlot
      ELSE CHOOSE i \in free : \A k \in free : i <= k

\* _find_next_slot: the first empty cell at start_slot, start_slot + 1, ...
\* (modulo slots), or None when the loop over range(slots) finds none.
_find_next_slot(self, start_slot) ==
  LET free == {i \in 0 .. self.slots - 1 :
                 self.ring[(start_slot + i) % self.slots] = None}
  IN  IF free = {} THEN NoSlot
      ELSE (start_slot + (CHOOSE i \in free : \A k \in free : i <= k)) % self.slots

\* list.sort() of a list of integers.
Sort(keys) == SortSeq(keys, LAMBDA a, b : a < b)

\* The loop of _update_sorted_keys over i = lo, ..., hi - 1: the occupied
\* positions, appended in this order.
RECURSIVE Occupied(_, _, _)
Occupied(self, lo, hi) ==
  IF hi <= lo THEN << >>
  ELSE IF hi = lo + 1 THEN (IF self.ring[lo] # None THEN <<lo>> ELSE << >>)
  ELSE LET mid == (lo + hi) \div 2
       IN  Occupied(self, lo, mid) \o Occupied(self, mid, hi)

\* A faulty _update_sorted_keys that appends to the list it has instead of
\* starting from an empty one.
_update_sorted_keysNoReset(self) ==
  [self EXCEPT !.sorted_keys = Sort(@ \o Occupied(self, 0, self.slots))]

\* _update_sorted_keys: the occupied positions, appended for i = 0..slots-1,
\* then sorted.
_update_sorted_keys(self) ==
  [self EXCEPT !.sorted_keys = Sort(Occupied(self, 0, self.slots))]

\* The element of a one-element set.  In {e(v) : v \in {x}} the value of x
\* is computed once, before e: a local of the code, assigned before its uses.
The(S) == CHOOSE r \in S : TRUE

\* A faulty rollback that releases nothing: the slots claimed in the failed
\* call stay claimed.
RollbackNothing(self, virtual_slots) == self

\* The rollback of add_server: every slot claimed in this call is cleared.
Rollback(self, virtual_slots) ==
  [self EXCEPT !.ring = [i \in 0 .. self.slots - 1 |->
                           IF i \in Range(virtual_slots) THEN None
                           ELSE self.ring[i]]]

\* A faulty round of the loop of add_server: the slot recorded for replica j
\* is the hashed slot, also when the probe has claimed another one.
AddStepRecordingHash(st, server_id, j) ==
  IF st.full THEN st
  ELSE LET self   == st.obj
           hashed == _hash_virtual_server(self, server_id, j)
           slot   == IF self.ring[hashed] # None
                     THEN _find_next_slot(self, hashed)
                     ELSE hashed
       IN  IF slot = NoSlot
           THEN [obj |-> Rollback(self, st.virtual_slots),
                 virtual_slots |-> st.virtual_slots, full |-> TRUE]
           ELSE [obj |-> [self EXCEPT !.ring[slot] = server_id],
                 virtual_slots |-> Append(st.virtual_slots, hashed), full |-> FALSE]

\* A faulty round of the loop of add_server that claims the hashed slot
\* whoever holds it.
AddStepOverwriting(st, server_id, j) ==
  IF st.full THEN st
  ELSE LET self   == st.obj
           hashed == _hash_virtual_server(self, server_id, j)
       IN  [obj |-> [self EXCEPT !.ring[hashed] = server_id],
            virtual_slots |-> Append(st.virtual_slots, hashed), full |-> FALSE]

\* A faulty round of the loop of add_server that drops a replica whose
\* hashed slot is taken, in place of probing for the next empty one.
AddStepWithoutProbe(st, server_id, j) ==
  IF st.full THEN st
  ELSE LET self   == st.obj
           hashed == _hash_virtual_server(self, server_id, j)
       IN  IF self.ring[hashed] # None THEN st
           ELSE [obj |-> [self EXCEPT !.ring[hashed] = server_id],
                 virtual_slots |-> Append(st.virtual_slots, hashed), full |-> FALSE]

\* One round of the loop of add_server, for replica j: the hash, the probe on
\* a collision, and either the claim of the slot or the rollback.  The loop's
\* state is the object, the slots claimed so far in this call, and whether
\* the call has returned False (full).
AddStep(st, server_id, j) ==
  IF st.full THEN st
  ELSE LET self   == st.obj
           hashed == _hash_virtual_server(self, server_id, j)
           slot   == IF self.ring[hashed] # None
                     THEN _find_next_slot(self, hashed)
                     ELSE hashed
       IN  IF slot = NoSlot
           THEN [obj |-> Rollback(self, st.virtual_slots),
                 virtual_slots |-> st.virtual_slots, full |-> TRUE]
           ELSE [obj |-> [self EXCEPT !.ring[slot] = server_id],
                 virtual_slots |-> Append(st.virtual_slots, slot), full |-> FALSE]

\* The rounds j = lo, ..., hi - 1 of the loop, in this order.
RECURSIVE AddLoop(_, _, _, _)
AddLoop(st, server_id, lo, hi) ==
  IF st.full \/ hi <= lo THEN st
  ELSE IF hi = lo + 1 THEN AddStep(st, server_id, lo)
  ELSE LET mid == (lo + hi) \div 2
       IN  The({AddLoop(half, server_id, mid, hi) :
                  half \in {AddLoop(st, server_id, lo, mid)}})

\* A faulty add_server without the check "server_id in self.servers".
add_serverUnchecked(self, server_id) ==
  The({ IF st.full THEN [obj |-> st.obj, ret |-> FALSE]
        ELSE [obj |-> _update_sorted_keys(
                        [st.obj EXCEPT !.servers =
                           [s \in DOMAIN self.servers \cup {server_id} |->
                              IF s = server_id THEN st.virtual_slots
                              ELSE self.servers[s]]]),
              ret |-> TRUE] :
        st \in {AddLoop([obj |-> self, virtual_slots |-> << >>, full |-> FALSE],
                        server_id, 0, self.virtual_servers)} })

\* add_server: [obj |-> the ring object after the call, ret |-> True / False].
add_server(self, server_id) ==
  IF server_id \in DOMAIN self.servers
  THEN [obj |-> self, ret |-> FALSE]
  ELSE The({ IF st.full THEN [obj |-> st.obj, ret |-> FALSE]
             ELSE [obj |-> _update_sorted_keys(
                             [st.obj EXCEPT !.servers =
                                [s \in DOMAIN self.servers \cup {server_id} |->
                                   IF s = server_id THEN st.virtual_slots
                                   ELSE self.servers[s]]]),
                   ret |-> TRUE] :
             st \in {AddLoop([obj |-> self, virtual_slots |-> << >>, full |-> FALSE],
                             server_id, 0, self.virtual_servers)} })

\* A faulty remove_server that clears the slots the server's replicas hash
\* to instead of the slots recorded for it.
remove_serverByHash(self, server_id) ==
  IF server_id \notin DOMAIN self.servers
  THEN [obj |-> self, ret |-> FALSE]
  ELSE LET hashed  == {_hash_virtual_server(self, server_id, j) :
                         j \in 0 .. self.virtual_servers - 1}
           cleared == [i \in 0 .. self.slots - 1 |->
                         IF i \in hashed THEN None ELSE self.ring[i]]
       IN  [obj |-> _update_sorted_keys(
                      [self EXCEPT
                         !.ring = cleared,
                         !.servers = [s \in DOMAIN self.servers \ {server_id} |->
                                        self.servers[s]]]),
            ret |-> TRUE]

\* A faulty remove_server that leaves out the call of _update_sorted_keys.
remove_serverWithoutUpdate(self, server_id) ==
  IF server_id \notin DOMAIN self.servers
  THEN [obj |-> self, ret |-> FALSE]
  ELSE LET cleared == [i \in 0 .. self.slots - 1 |->
                         IF i \in Range(self.servers[server_id]) THEN None
                         ELSE self.ring[i]]
       IN  [obj |-> [self EXCEPT
                       !.ring = cleared,
                       !.servers = [s \in DOMAIN self.servers \ {server_id} |->
                                      self.servers[s]]],
            ret |-> TRUE]

\* remove_server: [obj |-> the ring object after the call, ret |-> True / False].
remove_server(self, server_id) ==
  IF server_id \notin DOMAIN self.servers
  THEN [obj |-> self, ret |-> FALSE]
  ELSE LET cleared == [i \in 0 .. self.slots - 1 |->
                         IF i \in Range(self.servers[server_id]) THEN None
                         ELSE self.ring[i]]
       IN  [obj |-> _update_sorted_keys(
                      [self EXCEPT
                         !.ring = cleared,
                         !.servers = [s \in DOMAIN self.servers \ {server_id} |->
                                        self.servers[s]]]),
            ret |-> TRUE]

\* A faulty binary search: "sorted_keys[mid] > slot" in place of ">=".
RECURSIVE BinarySearchStrict(_, _, _, _, _)
BinarySearchStrict(keys, slot, left, right, result_idx) ==
  IF left > right THEN result_idx
  ELSE LET mid == (left + right) \div 2
       IN  IF keys[mid + 1] > slot
           THEN BinarySearchStrict(keys, slot, left, mid - 1, mid)
           ELSE BinarySearchStrict(keys, slot, mid + 1, right, result_idx)

\* The binary search of get_server over sorted_keys (0-based indexes left,
\* right, result_idx): the loop "while left <= right".
RECURSIVE BinarySearch(_, _, _, _, _)
BinarySearch(keys, slot, left, right, result_idx) ==
  IF left > right THEN result_idx
  ELSE LET mid == (left + right) \div 2
       IN  IF keys[mid + 1] >= slot
           THEN BinarySearch(keys, slot, left, mid - 1, mid)
           ELSE BinarySearch(keys, slot, mid + 1, right, result_idx)

\* A faulty get_server that answers the owner of the occupied cell after the
\* one the search found.
LookupNextKey(self, slot) ==
  LET keys  == self.sorted_keys
      found == BinarySearch(keys, slot, 0, Len(keys) - 1, 0)
      result_idx == IF found >= Len(keys) \/ keys[found + 1] < slot
                    THEN 0 ELSE found
  IN  self.ring[keys[((result_idx + 1) % Len(keys)) + 1]]

\* get_server from the hashed slot on: the search, the wrap-around, the owner.
Lookup(self, slot) ==
  LET keys  == self.sorted_keys
      found == BinarySearch(keys, slot, 0, Len(keys) - 1, 0)
      result_idx == IF found >= Len(keys) \/ keys[found + 1] < slot
                    THEN 0 ELSE found
  IN  self.ring[keys[result_idx + 1]]

\* A faulty get_server that also answers None when one server is recorded.
get_server_atNeedsTwo(self, slot) ==
  IF Cardinality(DOMAIN self.servers) <= 1 THEN None
  ELSE IF self.sorted_keys = << >> THEN None
  ELSE Lookup(self, slot)

\* get_server on a fingerprint: None without servers or without sorted keys.
get_server_at(self, slot) ==
  IF DOMAIN self.servers = {} THEN None
  ELSE IF self.sorted_keys = << >> THEN None
  ELSE Lookup(self, slot)

\* get_server: the server that handles request_id, or None.
get_server(self, request_id) ==
  get_server_at(self, _hash_request(self, request_id))

\* get_servers: the keys of the servers dict.
get_servers(self) == DOMAIN self.servers

(***************************************************************************)
(*                class LoadBalancer and the Flask handlers                *)
(*                                                                         *)
(* Threads: "boot" runs LoadBalancer.__init__ (initialize_lb), "health"    *)
(* runs _health_check_loop, "admin" serves /rep, /add and /rm, and each    *)
(* router thread serves GET /<path>.  A handler is split at its I/O calls  *)
(* (docker, the heartbeat probe, the upstream GET); the statements between *)
(* two I/O calls are one step.                                             *)
(***************************************************************************)
Routers == {"r1"}

Threads == {"boot", "health", "admin"} \cup Routers

Free == "free"

\* The state of the lazy start-up: "if lb is None: initialize_lb()" at the
\* head of every handler.  Spec follows the one instance that a first request
\* served alone builds (servers, ch, lock are its fields); SpecLazy follows
\* first requests served by several threads at once, and the instances they
\* build.
lazy == <<lb, instances, handler>>

\* "lb = None": no instance; the instances are numbered from 1.
NoInstance == 0

Handlers == {"h1", "h2"}

NoRequest ==
  [pc |-> "idle", kind |-> "none", arg |-> None, obj |-> NoInstance,
   held |-> NoInstance, server |-> None, from |-> NoInstance, served |-> 0]

\* A faulty registration: the name is appended even when it is a key already.
DictSetAgain(keys, name) == Append(keys, name)

\* lb.servers[name] = name
DictSet(keys, name) == IF name \in Range(keys) THEN keys ELSE Append(keys, name)

\* del lb.servers[name]
DictDel(keys, name) == SelectSeq(keys, LAMBDA k : k # name)

\* _generate_random_name: 'Server_' and eight random characters out of 62: a
\* new name.  It is neither in the fleet, nor a running container, nor one of
\* the servers the running health check replaces (the first such name).
FreeRandom ==
  {k \in DOMAIN RandomNames :
     RandomNames[k] \notin Range(servers) \cup containers \cup Range(health.failed)}

_generate_random_name ==
  RandomNames[CHOOSE k \in FreeRandom : \A m \in FreeRandom : k <= m]

\* _spawn_server: "docker rm -f name", then "docker run --name name"; ok is
\* whether run returned 0.  The containers that run afterwards.
_spawn_server(server_name, ok) ==
  IF ok THEN containers \cup {server_name} ELSE containers \ {server_name}

\* _remove_server_container: "docker rm -f name".
_remove_server_container(server_name) == containers \ {server_name}

\* The heartbeat probe of _check_server_health: GET /heartbeat answers 200
\* exactly when the container runs.
Probe(server_name) == server_name \in containers

(***************************************************************************)
(* The environment's bounds.  The names still to be generated by           *)
(* _generate_random_name must exist in RandomNames: every step that can    *)
(* lead to one more generated name (a crash, a failed run that takes a     *)
(* fleet member down, an /add without hostnames) needs room for it.        *)
(***************************************************************************)
MaxCrashes == 1

MaxFailedRuns == 1

MaxAdminRequests == 2

Max(a, b) == IF a >= b THEN a ELSE b

Demand ==
  Cardinality((Range(servers) \cup containers) \cap Range(RandomNames))
  + Cardinality(Range(servers) \ containers)
  + (IF pc["admin"] = "add"
     THEN Max(admin.n - Max(admin.i, Len(admin.hostnames)), 0) ELSE 0)
  + (IF pc["health"] = "spawn" THEN 1 ELSE 0)

Room(k) == Demand + k <= Len(RandomNames)

\* Whether "docker run" may fail here: the environment has a failure left,
\* and a failure that takes a running container down has room.
MayFail(server_name) ==
  /\ budget.failed_runs > 0
  /\ server_name \in containers => Room(1)

FailedRun(ok) == IF ok THEN budget ELSE [budget EXCEPT !.failed_runs = @ - 1]

\* A faulty registration that does not look at what _spawn_server returned.
SpawnAndRegisterAlways(server_name, ok) ==
  /\ containers' = _spawn_server(server_name, ok)
  /\ budget' = FailedRun(ok)
  /\ servers' = DictSet(servers, server_name)
  /\ ch' = add_server(ch, server_name).obj

\* if self._spawn_server(name): self.servers[name] = name;
\*                              self.consistent_hash.add_server(name)
SpawnAndRegister(server_name, ok) ==
  /\ containers' = _spawn_server(server_name, ok)
  /\ budget' = FailedRun(ok)
  /\ IF ok
     THEN /\ servers' = DictSet(servers, server_name)
          /\ ch' = add_server(ch, server_name).obj
     ELSE UNCHANGED <<servers, ch>>

NoHealth == [snapshot |-> << >>, idx |-> 0, failed |-> << >>]

\* The locals of add_servers / remove_servers, and two records kept for the
\* claims: the registry when the lock was taken (before) and the names whose
\* spawn succeeded in this request (spawned).
NoAdmin ==
  [n |-> 0, hostnames |-> << >>, i |-> 0, servers_to_remove |-> << >>,
   before |-> << >>, spawned |-> {}]

NoReply == [to |-> "none", status |-> 0]

(***************************************************************************)
(* LoadBalancer.__init__ / _initialize_servers: Server_1, Server_2,        *)
(* Server_3 are spawned in turn; then the health-check thread starts.      *)
(***************************************************************************)
BootSpawn(ok) ==
  /\ pc["boot"] = "init"
  /\ boot <= Len(InitialNames)
  /\ ok \/ MayFail(InitialNames[boot])
  /\ SpawnAndRegister(InitialNames[boot], ok)
  /\ boot' = boot + 1
  /\ UNCHANGED <<last, lazy, lock, pc, health, admin, route, reply>>

BootDone ==
  /\ pc["boot"] = "init"
  /\ boot > Len(InitialNames)
  /\ pc' = [pc EXCEPT !["boot"] = "done", !["health"] = "sleep"]
  /\ UNCHANGED <<ch, last, lazy, servers, containers, lock, boot, health, admin, route,
                 reply, budget>>

(***************************************************************************)
(* _health_check_loop / _check_server_health.  The whole check runs inside *)
(* "with self.lock".                                                       *)
(***************************************************************************)
\* time.sleep(10) is over; the lock is taken; list(self.servers.keys()).
HealthAcquire ==
  /\ pc["health"] = "sleep"
  /\ lock = Free
  /\ IF servers = << >>
     THEN UNCHANGED <<lock, pc, health>>
     ELSE /\ lock' = "health"
          /\ pc' = [pc EXCEPT !["health"] = "probe"]
          /\ health' = [snapshot |-> servers, idx |-> 1, failed |-> << >>]
  /\ UNCHANGED <<ch, last, lazy, servers, containers, boot, admin, route, reply, budget>>

\* requests.get(heartbeat) for the next server of the snapshot.
HealthProbe ==
  /\ pc["health"] = "probe"
  /\ LET server_name == health.snapshot[health.idx]
         failed == IF Probe(server_name) THEN health.failed
                   ELSE Append(health.failed, server_name)
     IN  IF health.idx < Len(health.snapshot)
         THEN /\ health' = [health EXCEPT !.idx = @ + 1, !.failed = failed]
              /\ UNCHANGED <<lock, pc>>
         ELSE IF failed = << >>
         THEN /\ health' = NoHealth
              /\ lock' = Free
              /\ pc' = [pc EXCEPT !["health"] = "sleep"]
         ELSE /\ health' = [health EXCEPT !.idx = 1, !.failed = failed]
              /\ pc' = [pc EXCEPT !["health"] = "remove"]
              /\ UNCHANGED lock
  /\ UNCHANGED <<ch, last, lazy, servers, containers, boot, admin, route, reply, budget>>

\* self._remove_server_container(server_name) for the next failed server.
HealthRemoveContainer ==
  /\ pc["health"] = "remove"
  /\ containers' = _remove_server_container(health.failed[health.idx])
  /\ pc' = [pc EXCEPT !["health"] = "purge"]
  /\ UNCHANGED <<ch, last, lazy, servers, lock, boot, health, admin, route, reply, budget>>

\* A faulty purge that takes the server from the list of probed servers
\* instead of the list of failed ones.
HealthPurgeSnapshot ==
  /\ pc["health"] = "purge"
  /\ LET server_name == health.snapshot[health.idx]
     IN  /\ ch' = remove_server(ch, server_name).obj
         /\ servers' = DictDel(servers, server_name)
  /\ pc' = [pc EXCEPT !["health"] = "spawn"]
  /\ UNCHANGED <<last, lazy, containers, lock, boot, health, admin, route, reply, budget>>

\* A faulty purge: the ring is purged and the registry entry is kept.
HealthPurgeRingOnly ==
  /\ pc["health"] = "purge"
  /\ ch' = remove_server(ch, health.failed[health.idx]).obj
  /\ pc' = [pc EXCEPT !["health"] = "spawn"]
  /\ UNCHANGED <<last, lazy, servers, containers, lock, boot, health, admin, route, reply,
                 budget>>

\* A faulty purge: the registry entry is deleted and the ring is left alone.
HealthPurgeRegistryOnly ==
  /\ pc["health"] = "purge"
  /\ servers' = DictDel(servers, health.failed[health.idx])
  /\ pc' = [pc EXCEPT !["health"] = "spawn"]
  /\ UNCHANGED <<ch, last, lazy, containers, lock, boot, health, admin, route, reply, budget>>

\* self.consistent_hash.remove_server(server_name); del self.servers[server_name]
HealthPurge ==
  /\ pc["health"] = "purge"
  /\ LET server_name == health.failed[health.idx]
     IN  /\ ch' = remove_server(ch, server_name).obj
         /\ servers' = DictDel(servers, server_name)
  /\ pc' = [pc EXCEPT !["health"] = "spawn"]
  /\ UNCHANGED <<last, lazy, containers, lock, boot, health, admin, route, reply, budget>>

\* new_name = self._generate_random_name(); the spawn of the replacement; the
\* next failed server, or the end of the "with" block.
HealthSpawn(ok) ==
  /\ pc["health"] = "spawn"
  /\ LET new_name == _generate_random_name
     IN  /\ ok \/ MayFail(new_name)
         /\ SpawnAndRegister(new_name, ok)
  /\ IF health.idx < Len(health.failed)
     THEN /\ health' = [health EXCEPT !.idx = @ + 1]
          /\ pc' = [pc EXCEPT !["health"] = "remove"]
          /\ UNCHANGED lock
     ELSE /\ health' = NoHealth
          /\ lock' = Free
          /\ pc' = [pc EXCEPT !["health"] = "sleep"]
  /\ UNCHANGED <<last, lazy, boot, admin, route, reply>>

(***************************************************************************)
(* GET /rep                                                                *)
(***************************************************************************)
\* The reply carries N = len(lb.servers) and replicas = list(lb.servers.keys()).
GetReplicas ==
  /\ pc["boot"] = "done"
  /\ pc["admin"] = "idle"
  /\ lock = Free
  /\ reply' = [to |-> "admin", status |-> 200]
  /\ UNCHANGED <<ch, last, lazy, servers, containers, lock, pc, boot, health, admin, route,
                 budget>>

(***************************************************************************)
(* POST /add and DELETE /rm.  A body is [n, hostnames], or has no "n".     *)
(***************************************************************************)
Body(n, hostnames) == [n |-> n, hostnames |-> hostnames]

\* The bodies with len(hostnames) <= n that the admin client sends: counts
\* alone, new hostnames, a hostname of a fleet member, a repeated hostname.
Bodies ==
  { Body(0, << >>), Body(1, << >>), Body(2, << >>),
    Body(1, <<"TestServer1">>), Body(1, <<"Server_1">>),
    Body(2, <<"TestServer1">>), Body(3, <<"Server_1">>),
    Body(2, <<"TestServer1", "TestServer2">>),
    Body(2, <<"TestServer1", "TestServer1">>),
    Body(2, <<"Server_1", "Server_1">>) }

\* The bodies the handlers refuse: without "n", or with more hostnames than n.
InvalidBodies ==
  { [hostnames |-> <<"TestServer1">>],
    Body(0, <<"TestServer1">>),
    Body(1, <<"Server_1", "Server_2">>),
    Body(2, <<"TestServer1", "TestServer2", "Server_1">>) }

\* "not data or 'n' not in data", then len(data.get('hostnames', [])) > n.
Invalid(data) ==
  IF "n" \notin DOMAIN data THEN TRUE ELSE Len(data.hostnames) > data.n

\* A faulty validation: the first hostname is spawned and registered before
\* the 400 reply.
AddInvalidAfterSpawn(data) ==
  /\ pc["boot"] = "done"
  /\ pc["admin"] = "idle"
  /\ budget.requests > 0
  /\ Invalid(data)
  /\ budget' = [budget EXCEPT !.requests = @ - 1]
  /\ reply' = [to |-> "admin", status |-> 400]
  /\ containers' = containers \cup {data.hostnames[1]}
  /\ servers' = DictSet(servers, data.hostnames[1])
  /\ UNCHANGED <<ch, last, lazy, lock, pc, boot, health, admin, route>>

\* add_servers with "not data or 'n' not in data" or len(hostnames) > n:
\* 400, status failure.
AddInvalid(data) ==
  /\ pc["boot"] = "done"
  /\ pc["admin"] = "idle"
  /\ budget.requests > 0
  /\ Invalid(data)
  /\ budget' = [budget EXCEPT !.requests = @ - 1]
  /\ reply' = [to |-> "admin", status |-> 400]
  /\ UNCHANGED <<ch, last, lazy, servers, containers, lock, pc, boot, health, admin, route>>

\* remove_servers with "not data or 'n' not in data" or len(hostnames) > n:
\* 400, status failure.
RmInvalid(data) ==
  /\ pc["boot"] = "done"
  /\ pc["admin"] = "idle"
  /\ budget.requests > 0
  /\ Invalid(data)
  /\ budget' = [budget EXCEPT !.requests = @ - 1]
  /\ reply' = [to |-> "admin", status |-> 400]
  /\ UNCHANGED <<ch, last, lazy, servers, containers, lock, pc, boot, health, admin, route>>

\* add_servers, up to "with lb.lock".
AddRequest(data) ==
  /\ pc["boot"] = "done"
  /\ pc["admin"] = "idle"
  /\ budget.requests > 0
  /\ Len(data.hostnames) <= data.n
  /\ Room(data.n - Len(data.hostnames))
  /\ lock = Free
  /\ lock' = "admin"
  /\ pc' = [pc EXCEPT !["admin"] = "add"]
  /\ admin' = [NoAdmin EXCEPT !.n = data.n, !.hostnames = data.hostnames,
                              !.before = servers]
  /\ budget' = [budget EXCEPT !.requests = @ - 1]
  /\ UNCHANGED <<ch, last, lazy, servers, containers, boot, health, route, reply>>

\* One round of "for i in range(n)": the name, the spawn, the registration.
AddSpawn(ok) ==
  /\ pc["admin"] = "add"
  /\ admin.i < admin.n
  /\ LET server_name == IF admin.i < Len(admin.hostnames)
                        THEN admin.hostnames[admin.i + 1]
                        ELSE _generate_random_name
     IN  /\ ok \/ MayFail(server_name)
         /\ SpawnAndRegister(server_name, ok)
         /\ admin' = [admin EXCEPT
                        !.i = @ + 1,
                        !.spawned = IF ok THEN @ \cup {server_name} ELSE @]
  /\ UNCHANGED <<last, lazy, lock, pc, boot, health, route, reply>>

\* The reply of add_servers and of remove_servers (N and replicas of
\* lb.servers) and the end of the "with" block.
AdminReply ==
  /\ \/ pc["admin"] = "add" /\ admin.i = admin.n
     \/ pc["admin"] = "rm" /\ admin.i = Len(admin.servers_to_remove)
  /\ reply' = [to |-> "admin", status |-> 200]
  /\ lock' = Free
  /\ pc' = [pc EXCEPT !["admin"] = "idle"]
  /\ admin' = NoAdmin
  /\ UNCHANGED <<ch, last, lazy, servers, containers, boot, health, route, budget>>

\* random.sample(population, k), listed in the population's order.
Samples(population, k) ==
  {SelectSeq(population, LAMBDA s : s \in chosen) :
     chosen \in {c \in SUBSET Range(population) : Cardinality(c) = k}}

Min(a, b) == IF a <= b THEN a ELSE b

\* A faulty selection whose random fill draws from the whole registry, the
\* hostnames already selected included.
ServersToRemoveFromAll(n, hostnames) ==
  IF hostnames # << >>
  THEN LET named     == SelectSeq(hostnames, LAMBDA h : h \in Range(servers))
           remaining == n - Len(named)
       IN  IF remaining > 0
           THEN {named \o sample :
                   sample \in Samples(servers, Min(remaining, Len(servers)))}
           ELSE {named}
  ELSE Samples(servers, Min(n, Len(servers)))

\* The lists servers_to_remove that remove_servers can build.
ServersToRemove(n, hostnames) ==
  IF hostnames # << >>
  THEN LET named     == SelectSeq(hostnames, LAMBDA h : h \in Range(servers))
           remaining == n - Len(named)
           available == SelectSeq(servers, LAMBDA s : s \notin Range(named))
       IN  IF remaining > 0
           THEN {named \o sample :
                   sample \in Samples(available, Min(remaining, Len(available)))}
           ELSE {named}
  ELSE Samples(servers, Min(n, Len(servers)))

\* remove_servers, up to the loop "for server_name in servers_to_remove".
RmRequest(data) ==
  /\ pc["boot"] = "done"
  /\ pc["admin"] = "idle"
  /\ budget.requests > 0
  /\ Len(data.hostnames) <= data.n
  /\ lock = Free
  /\ lock' = "admin"
  /\ pc' = [pc EXCEPT !["admin"] = "rm"]
  /\ \E servers_to_remove \in ServersToRemove(data.n, data.hostnames) :
       admin' = [NoAdmin EXCEPT !.n = data.n, !.hostnames = data.hostnames,
                                !.before = servers,
                                !.servers_to_remove = servers_to_remove]
  /\ budget' = [budget EXCEPT !.requests = @ - 1]
  /\ UNCHANGED <<ch, last, lazy, servers, containers, boot, health, route, reply>>

\* "if server_name in lb.servers": lb._remove_server_container(server_name).
RmContainer ==
  /\ pc["admin"] = "rm"
  /\ admin.i < Len(admin.servers_to_remove)
  /\ LET server_name == admin.servers_to_remove[admin.i + 1]
     IN  IF server_name \in Range(servers)
         THEN /\ containers' = _remove_server_container(server_name)
              /\ pc' = [pc EXCEPT !["admin"] = "rm_purge"]
              /\ UNCHANGED admin
         ELSE /\ admin' = [admin EXCEPT !.i = @ + 1]
              /\ UNCHANGED <<containers, pc>>
  /\ UNCHANGED <<ch, last, lazy, servers, lock, boot, health, route, reply, budget>>

\* lb.consistent_hash.remove_server(server_name); del lb.servers[server_name]
RmPurge ==
  /\ pc["admin"] = "rm_purge"
  /\ LET server_name == admin.servers_to_remove[admin.i + 1]
     IN  /\ ch' = remove_server(ch, server_name).obj
         /\ servers' = DictDel(servers, server_name)
  /\ admin' = [admin EXCEPT !.i = @ + 1]
  /\ pc' = [pc EXCEPT !["admin"] = "rm"]
  /\ UNCHANGED <<last, lazy, containers, lock, boot, health, route, reply, budget>>

(***************************************************************************)
(* GET /<path>: route_request.  The lookup, the upstream GET and the reply *)
(* are all inside "with lb.lock".                                          *)
(***************************************************************************)
\* request_id = random.randint(...); the lock; get_server(request_id); the
\* 500 reply when there is no server.
RouteLookup(r, request_id) ==
  /\ pc["boot"] = "done"
  /\ pc[r] = "idle"
  /\ lock = Free
  /\ LET server == get_server(ch, request_id)
     IN  IF server = None
         THEN /\ reply' = [to |-> r, status |-> 500]
              /\ UNCHANGED <<lock, pc, route>>
         ELSE /\ lock' = r
              /\ pc' = [pc EXCEPT ![r] = "proxy"]
              /\ route' = [route EXCEPT ![r] = server]
              /\ UNCHANGED reply
  /\ UNCHANGED <<ch, last, lazy, servers, containers, boot, health, admin, budget>>

\* requests.get(f'http://{server}:5000/{path}'): the backend's answer is
\* forwarded, or the exception gives the 400 reply; the "with" block ends.
RouteProxy(r) ==
  /\ pc[r] = "proxy"
  /\ reply' = [to |-> r, status |-> IF route[r] \in containers THEN 200 ELSE 400]
  /\ lock' = Free
  /\ pc' = [pc EXCEPT ![r] = "idle"]
  /\ route' = [route EXCEPT ![r] = None]
  /\ UNCHANGED <<ch, last, lazy, servers, containers, boot, health, admin, budget>>

(***************************************************************************)
(* The environment: a running container stops answering.                   *)
(***************************************************************************)
Crash(c) ==
  /\ c \in containers
  /\ budget.crashes > 0
  /\ Room(1)
  /\ containers' = containers \ {c}
  /\ budget' = [budget EXCEPT !.crashes = @ - 1]
  /\ UNCHANGED <<ch, last, lazy, servers, lock, pc, boot, health, admin, route, reply>>

(***************************************************************************)
(* The specifications.                                                     *)
(***************************************************************************)
vars == <<ch, last, servers, containers, lock, pc, boot, health, admin, route,
          reply, budget, lb, instances, handler>>

fleet == <<servers, containers, lock, pc, boot, health, admin, route, reply, budget,
           lazy>>

NoCall == [op |-> "none", id |-> None, ret |-> FALSE, pre |-> ConsistentHash(0, 0)]

\* No thread has started: lb is None, no container runs.
InitFleet ==
  /\ servers = << >>
  /\ containers = {}
  /\ lock = Free
  /\ pc = [t \in Threads |-> IF t = "boot" THEN "init"
                             ELSE IF t = "health" THEN "unstarted" ELSE "idle"]
  /\ boot = 1
  /\ health = NoHealth
  /\ admin = NoAdmin
  /\ route = [r \in Routers |-> None]
  /\ reply = NoReply
  /\ budget = [crashes |-> MaxCrashes, failed_runs |-> MaxFailedRuns,
               requests |-> MaxAdminRequests]
  /\ lb = NoInstance
  /\ instances = << >>
  /\ handler = [t \in Handlers |-> NoRequest]

(***************************************************************************)
(* SpecRing: the ring alone.  Any sequence of add_server and remove_server *)
(* calls on one ConsistentHash object, for every ring size and replica     *)
(* count up to the bounds.                                                 *)
(***************************************************************************)
MaxSlots == 6

MaxVirtual == 2

RingIds == Range(InitialNames) \cup HostNames

InitRing ==
  /\ \E slots \in 3 .. MaxSlots, virtual_servers \in 1 .. MaxVirtual :
       ch = ConsistentHash(slots, virtual_servers)
  /\ last = NoCall
  /\ InitFleet

RingAdd(server_id) ==
  LET r == add_server(ch, server_id)
  IN  /\ ch' = r.obj
      /\ last' = [op |-> "add", id |-> server_id, ret |-> r.ret, pre |-> ch]
      /\ UNCHANGED fleet

RingRemove(server_id) ==
  LET r == remove_server(ch, server_id)
  IN  /\ ch' = r.obj
      /\ last' = [op |-> "remove", id |-> server_id, ret |-> r.ret, pre |-> ch]
      /\ UNCHANGED fleet

NextRing ==
  \/ \E server_id \in RingIds : RingAdd(server_id)
  \/ \E server_id \in RingIds : RingRemove(server_id)

SpecRing == InitRing /\ [][NextRing]_vars

(***************************************************************************)
(* Spec: the load balancer, from the first request on.                     *)
(***************************************************************************)
LbSlots == 7

LbVirtual == 2

Init ==
  /\ ch = ConsistentHash(LbSlots, LbVirtual)
  /\ last = NoCall
  /\ InitFleet

Boot == BootDone \/ \E ok \in BOOLEAN : BootSpawn(ok)

Health ==
  \/ HealthAcquire
  \/ HealthProbe
  \/ HealthRemoveContainer
  \/ HealthPurge
  \/ \E ok \in BOOLEAN : HealthSpawn(ok)

Admin ==
  \/ GetReplicas
  \/ \E data \in InvalidBodies : AddInvalid(data)
  \/ \E data \in InvalidBodies : RmInvalid(data)
  \/ \E data \in Bodies : AddRequest(data)
  \/ \E ok \in BOOLEAN : AddSpawn(ok)
  \/ \E data \in Bodies : RmRequest(data)
  \/ RmContainer
  \/ RmPurge
  \/ AdminReply

Route ==
  \/ \E r \in Routers, request_id \in RequestIds : RouteLookup(r, request_id)
  \/ \E r \in Routers : RouteProxy(r)

Environment == \E c \in Names : Crash(c)

Next == Boot \/ Health \/ Admin \/ Route \/ Environment

Spec == Init /\ [][Next]_vars

(***************************************************************************)
(* SpecDefault: start-up and routing with the ring as ConsistentHash()     *)
(* builds it: 512 slots, 200 virtual servers.                              *)
(***************************************************************************)
DefaultSlots == 512

DefaultVirtualServers == 200

InitDefault ==
  /\ ch = ConsistentHash(DefaultSlots, DefaultVirtualServers)
  /\ last = NoCall
  /\ InitFleet

NextDefault == Boot \/ Route \/ GetReplicas \/ Health \/ Environment

SpecDefault == InitDefault /\ [][NextDefault]_vars

(***************************************************************************)
(* FairSpec: the health-check thread keeps ticking and no admin request    *)
(* arrives.  _health_check_loop is "while True: sleep(10); check", so the  *)
(* check is taken again and again (strong fairness on the acquisition of   *)
(* the lock, which a router may hold now and then) and, once inside, runs  *)
(* to its end; a router ends its upstream call (timeout=10).  "docker run" *)
(* fails at most MaxFailedRuns times, so spawns eventually succeed.        *)
(***************************************************************************)
HealthCheck ==
  \/ HealthProbe
  \/ HealthRemoveContainer
  \/ HealthPurge
  \/ \E ok \in BOOLEAN : HealthSpawn(ok)

NextFair == Boot \/ HealthAcquire \/ HealthCheck \/ Route \/ Environment

FairSpec ==
  /\ Init
  /\ [][NextFair]_vars
  /\ WF_vars(Boot)
  /\ SF_vars(HealthAcquire)
  /\ WF_vars(HealthCheck)
  /\ WF_vars(\E r \in Routers : RouteProxy(r))

(***************************************************************************)
(* SpecLazy: the first requests, served by two Flask threads at once.      *)
(* Every handler begins with "if lb is None: initialize_lb()", and         *)
(* initialize_lb with "if lb is None: lb = LoadBalancer()": a thread that  *)
(* sees None builds an instance (a sleep of 5 s and three spawns) and then *)
(* assigns it.  Every later statement of a handler reads the global lb     *)
(* again; "with lb.lock" releases the lock it acquired.  A handler is      *)
(* split where another thread can run: at each statement that reads lb.    *)
(* Every spawn of a start-up server succeeds; the health-check threads of  *)
(* the instances are left out.                                             *)
(***************************************************************************)
MaxFirstRequests == 1

LazySlots == 14

\* The fields of Spec's single instance and its threads: not used here.
single == <<ch, last, servers, lock, pc, boot, health, admin, route, budget>>

\* LoadBalancer(): the registry, the ring and the lock after __init__.
LoadBalancer ==
  LET ring0 == ConsistentHash(LazySlots, LbVirtual)
      ring1 == add_server(ring0, InitialNames[1]).obj
      ring2 == add_server(ring1, InitialNames[2]).obj
      ring3 == add_server(ring2, InitialNames[3]).obj
  IN  [servers |-> InitialNames, ch |-> ring3, lock |-> Free]

\* The end of a "with lb.lock" block: the lock acquired is released.
Release(t) == [instances EXCEPT ![handler[t].held].lock = Free]

\* The handler's locals when its request is over.
Over(t) == [NoRequest EXCEPT !.served = handler[t].served]

\* A request arrives: GET /rep, POST /add {"n": 1, "hostnames": [arg]},
\* DELETE /rm {"n": 1} or GET /home; the handler's "if lb is None".
HandlerEnter(t, kind, arg) ==
  /\ handler[t].pc = "idle"
  /\ handler[t].served < MaxFirstRequests
  /\ handler' = [handler EXCEPT ![t] =
                   [NoRequest EXCEPT !.kind = kind, !.arg = arg,
                                     !.served = handler[t].served + 1,
                                     !.pc = IF lb = NoInstance THEN "initialize"
                                           ELSE "lock"]]
  /\ UNCHANGED <<single, containers, reply, lb, instances>>

\* initialize_lb: "if lb is None".
HandlerInitialize(t) ==
  /\ handler[t].pc = "initialize"
  /\ handler' = [handler EXCEPT ![t].pc = IF lb = NoInstance THEN "construct"
                                            ELSE "lock"]
  /\ UNCHANGED <<single, containers, reply, lb, instances>>

\* LoadBalancer(): the right-hand side of "lb = LoadBalancer()".
HandlerConstruct(t) ==
  /\ handler[t].pc = "construct"
  /\ instances' = Append(instances, LoadBalancer)
  /\ containers' = containers \cup Range(InitialNames)
  /\ handler' = [handler EXCEPT ![t].obj = Len(instances) + 1, ![t].pc = "assign"]
  /\ UNCHANGED <<single, reply, lb>>

\* "lb = ...": the assignment to the global.
HandlerAssign(t) ==
  /\ handler[t].pc = "assign"
  /\ lb' = handler[t].obj
  /\ handler' = [handler EXCEPT ![t].pc = "lock"]
  /\ UNCHANGED <<single, containers, reply, instances>>

\* "with lb.lock:" the lock of the instance lb names now is acquired.
HandlerAcquire(t) ==
  /\ handler[t].pc = "lock"
  /\ instances[lb].lock = Free
  /\ instances' = [instances EXCEPT ![lb].lock = t]
  /\ handler' = [handler EXCEPT
                   ![t].held = lb,
                   ![t].pc = IF handler[t].kind = "add" THEN "spawn"
                             ELSE IF handler[t].kind = "rm" THEN "select"
                             ELSE IF handler[t].kind = "route" THEN "lookup"
                             ELSE "reply"]
  /\ UNCHANGED <<single, containers, reply, lb>>

\* POST /add: lb._spawn_server(server_name), "docker run" returning 0 or not.
HandlerSpawn(t, ok) ==
  /\ handler[t].pc = "spawn"
  /\ containers' = _spawn_server(handler[t].arg, ok)
  /\ handler' = [handler EXCEPT ![t].pc = IF ok THEN "register" ELSE "reply"]
  /\ UNCHANGED <<single, reply, lb, instances>>

\* lb.servers[server_name] = server_name
HandlerRegister(t) ==
  /\ handler[t].pc = "register"
  /\ instances' = [instances EXCEPT ![lb].servers = DictSet(@, handler[t].arg)]
  /\ handler' = [handler EXCEPT ![t].pc = "ring_add"]
  /\ UNCHANGED <<single, containers, reply, lb>>

\* lb.consistent_hash.add_server(server_name)
HandlerRingAdd(t) ==
  /\ handler[t].pc = "ring_add"
  /\ instances' = [instances EXCEPT ![lb].ch = add_server(@, handler[t].arg).obj]
  /\ handler' = [handler EXCEPT ![t].pc = "reply"]
  /\ UNCHANGED <<single, containers, reply, lb>>

\* DELETE /rm {"n": 1}: random.sample(list(lb.servers.keys()), min(n, len(lb.servers)))
HandlerSelect(t) ==
  /\ handler[t].pc = "select"
  /\ IF instances[lb].servers = << >>
     THEN handler' = [handler EXCEPT ![t].pc = "reply"]
     ELSE \E server_name \in Range(instances[lb].servers) :
            handler' = [handler EXCEPT ![t].server = server_name, ![t].pc = "rm_check"]
  /\ UNCHANGED <<single, containers, reply, lb, instances>>

\* "if server_name in lb.servers": lb._remove_server_container(server_name)
HandlerRemoveContainer(t) ==
  /\ handler[t].pc = "rm_check"
  /\ IF handler[t].server \in Range(instances[lb].servers)
     THEN /\ containers' = _remove_server_container(handler[t].server)
          /\ handler' = [handler EXCEPT ![t].pc = "ring_remove"]
     ELSE /\ handler' = [handler EXCEPT ![t].pc = "reply"]
          /\ UNCHANGED containers
  /\ UNCHANGED <<single, reply, lb, instances>>

\* lb.consistent_hash.remove_server(server_name)
HandlerRingRemove(t) ==
  /\ handler[t].pc = "ring_remove"
  /\ instances' = [instances EXCEPT ![lb].ch = remove_server(@, handler[t].server).obj]
  /\ handler' = [handler EXCEPT ![t].pc = "delete"]
  /\ UNCHANGED <<single, containers, reply, lb>>

\* del lb.servers[server_name]: a KeyError when the name is not a key; the
\* exception leaves the "with" block and the request ends with 500.
HandlerDelete(t) ==
  /\ handler[t].pc = "delete"
  /\ IF handler[t].server \in Range(instances[lb].servers)
     THEN /\ instances' = [instances EXCEPT
                             ![lb].servers = DictDel(@, handler[t].server)]
          /\ handler' = [handler EXCEPT ![t].pc = "reply"]
          /\ UNCHANGED reply
     ELSE /\ instances' = Release(t)
          /\ handler' = [handler EXCEPT ![t] = Over(t)]
          /\ reply' = [to |-> t, status |-> 500]
  /\ UNCHANGED <<single, containers, lb>>

\* GET /home: lb.consistent_hash.get_server(request_id), with the request_id
\* drawn by random.randint; the 500 reply when there is no server.
HandlerLookup(t) ==
  /\ handler[t].pc = "lookup"
  /\ \E request_id \in RequestIds :
       LET server == get_server(instances[lb].ch, request_id)
       IN  IF server = None
           THEN /\ instances' = Release(t)
                /\ handler' = [handler EXCEPT ![t] = Over(t)]
                /\ reply' = [to |-> t, status |-> 500]
           ELSE /\ handler' = [handler EXCEPT ![t].server = server, ![t].from = lb,
                                              ![t].pc = "proxy"]
                /\ UNCHANGED <<instances, reply>>
  /\ UNCHANGED <<single, containers, lb>>

\* A faulty proxy step: the reply is 200 whether the backend answers or not.
HandlerProxyAlways200(t) ==
  /\ handler[t].pc = "proxy"
  /\ reply' = [to |-> t, status |-> 200]
  /\ instances' = Release(t)
  /\ handler' = [handler EXCEPT ![t].pc = "replied"]
  /\ UNCHANGED <<single, containers, lb>>

\* requests.get(f'http://{server}:5000/{path}'): the backend's answer, or the
\* 400 reply of the "except" branch; the "with" block ends.
HandlerProxy(t) ==
  /\ handler[t].pc = "proxy"
  /\ reply' = [to |-> t,
               status |-> IF handler[t].server \in containers THEN 200 ELSE 400]
  /\ instances' = Release(t)
  /\ handler' = [handler EXCEPT ![t].pc = "replied"]
  /\ UNCHANGED <<single, containers, lb>>

\* The reply of /rep, /add and /rm: N = len(lb.servers) and the keys of
\* lb.servers; the "with" block ends.
HandlerReply(t) ==
  /\ handler[t].pc = "reply"
  /\ reply' = [to |-> t, status |-> 200]
  /\ instances' = Release(t)
  /\ handler' = [handler EXCEPT ![t] = Over(t)]
  /\ UNCHANGED <<single, containers, lb>>

\* The router thread is ready for its next request.
HandlerDone(t) ==
  /\ handler[t].pc = "replied"
  /\ handler' = [handler EXCEPT ![t] = Over(t)]
  /\ UNCHANGED <<single, containers, reply, lb, instances>>

NextLazy ==
  \E t \in Handlers :
    \/ \E kind \in {"rep", "rm", "route"} : HandlerEnter(t, kind, None)
    \/ \E hostname \in HostNames : HandlerEnter(t, "add", hostname)
    \/ HandlerInitialize(t)
    \/ HandlerConstruct(t)
    \/ HandlerAssign(t)
    \/ HandlerAcquire(t)
    \/ \E ok \in BOOLEAN : HandlerSpawn(t, ok)
    \/ HandlerRegister(t)
    \/ HandlerRingAdd(t)
    \/ HandlerSelect(t)
    \/ HandlerRemoveContainer(t)
    \/ HandlerRingRemove(t)
    \/ HandlerDelete(t)
    \/ HandlerLookup(t)
    \/ HandlerProxy(t)
    \/ HandlerReply(t)
    \/ HandlerDone(t)

SpecLazy == Init /\ [][NextLazy]_vars

(***************************************************************************)
(*                              The claims                                 *)
(***************************************************************************)
Slots(self) == 0 .. self.slots - 1

\* The cells of the ring that hold server_id.
CellsOf(self, server_id) == {i \in Slots(self) : self.ring[i] = server_id}

\* The backends that hold at least one cell.
RingOwners(self) == {self.ring[i] : i \in Slots(self)} \ {None}

(* C1: whenever the fleet lock is free, the backends of the registry (what *)
(* GET /rep reports) are exactly the backends that hold cells of the ring, *)
(* and each holds between 1 and K cells.  The code registers a name even   *)
(* when add_server returned False for a full ring.                         *)
C1_RegistryIsRing ==
  lock = Free =>
    /\ Range(servers) = RingOwners(ch)
    /\ \A s \in Range(servers) :
         /\ Cardinality(CellsOf(ch, s)) >= 1
         /\ Cardinality(CellsOf(ch, s)) <= ch.virtual_servers

(* C2: a router thread whose upstream GET is in flight does not hold the   *)
(* fleet lock.  The code makes the upstream call inside "with lb.lock".    *)
C2_ProxyOutsideLock ==
  \A r \in Routers : pc[r] = "proxy" => lock # r

(* C3: the health thread does not hold the fleet lock while it probes a    *)
(* backend, removes a container or spawns a replacement.  The code does    *)
(* all three inside "with self.lock".                                      *)
C3_HealthIoOutsideLock ==
  pc["health"] \in {"probe", "remove", "spawn"} => lock # "health"

(* C4: consistency of the ring object: for every backend id with recorded  *)
(* slots S, ring[s] = id for every s in S and ring[s] # id for every other *)
(* slot, after every sequence of add_server and remove_server calls, the   *)
(* adds that fail on a full ring included.                                 *)
C4_Consistency ==
  \A id \in DOMAIN ch.servers :
    \A s \in Slots(ch) : (s \in Range(ch.servers[id])) <=> (ch.ring[s] = id)

\* An add has just failed on a full ring after claiming a slot, and backends
\* remain recorded.
C4_Witness ==
  /\ last.op = "add" /\ ~last.ret
  /\ last.id \notin DOMAIN last.pre.servers
  /\ \E i \in Slots(last.pre) : last.pre.ring[i] = None
  /\ Cardinality(DOMAIN ch.servers) >= 2

(* C5: whenever the fleet lock is free, every occupied cell of the ring    *)
(* holds a backend of the registry, recorded as the one owner of that      *)
(* cell; so every lookup gives None or a backend GET /rep reports, and the *)
(* server a router is proxying to (the lock is held then) is one too.      *)
C5_Injectivity ==
  /\ lock = Free =>
       /\ \A i \in Slots(ch) :
            ch.ring[i] # None =>
              /\ ch.ring[i] \in Range(servers)
              /\ \A id \in DOMAIN ch.servers :
                   (i \in Range(ch.servers[id])) <=> (id = ch.ring[i])
       /\ \A f \in Slots(ch) : get_server_at(ch, f) \in Range(servers) \cup {None}
  /\ \A r \in Routers : pc[r] = "proxy" => route[r] \in Range(servers)

\* After start-up, a health replacement and a DELETE /rm have taken place: a
\* generated name holds cells, Server_1 is gone, and the lock is free.
C5_Witness ==
  /\ lock = Free
  /\ pc["boot"] = "done"
  /\ budget.requests < MaxAdminRequests
  /\ budget.crashes < MaxCrashes
  /\ InitialNames[1] \notin Range(servers)
  /\ \E i \in Slots(ch) : ch.ring[i] \in Range(RandomNames)
  /\ Len(servers) >= 2

(* C6: stability under removal: after remove_server(x) on a ring that held *)
(* x, every fingerprint whose lookup was not x before has the same lookup  *)
(* after.                                                                  *)
C6_StableUnderRemoval ==
  (last.op = "remove" /\ last.ret) =>
    \A f \in Slots(ch) :
      get_server_at(last.pre, f) # last.id =>
        get_server_at(ch, f) = get_server_at(last.pre, f)

\* A backend has just been removed from a ring with at least three backends;
\* some fingerprints were its own and some were not.
C6_Witness ==
  /\ last.op = "remove" /\ last.ret
  /\ Cardinality(DOMAIN last.pre.servers) >= 3
  /\ \E f \in Slots(ch) : get_server_at(last.pre, f) = last.id
  /\ \E f \in Slots(ch) : get_server_at(last.pre, f) \notin {last.id, None}

\* The owner of the smallest occupied slot >= f, or of the smallest occupied
\* slot when none is >= f; read off the ring's cells.
Successor(self, f) ==
  LET occupied == {i \in Slots(self) : self.ring[i] # None}
      ahead    == {i \in occupied : i >= f}
      least(S) == CHOOSE i \in S : \A k \in S : i <= k
  IN  self.ring[IF ahead # {} THEN least(ahead) ELSE least(occupied)]

(* C7: on a ring with an occupied cell, the lookup of every fingerprint f  *)
(* in 0..slots-1 is the owner of the smallest occupied slot >= f, and of   *)
(* the smallest occupied slot when none is >= f.                           *)
C7_LookupIsSuccessor ==
  RingOwners(ch) # {} =>
    \A f \in Slots(ch) : get_server_at(ch, f) = Successor(ch, f)

\* A ring with two backends where some fingerprint wraps around and some
\* fingerprint falls strictly between two occupied slots.
C7_Witness ==
  /\ Cardinality(RingOwners(ch)) >= 2
  /\ ch.ring[ch.slots - 1] = None
  /\ \E f \in Slots(ch) : ch.ring[f] = None /\ \E i \in Slots(ch) : i > f /\ ch.ring[i] # None
  /\ last.op = "add" /\ last.ret

(* C8: when add_server finds no empty slot for some replica it returns     *)
(* False and leaves the ring's cells, the slot records and the sorted keys *)
(* as they were before the call.                                           *)
C8_RingFullRestores ==
  (last.op = "add" /\ ~last.ret /\ last.id \notin DOMAIN last.pre.servers) =>
    /\ ch.ring = last.pre.ring
    /\ ch.servers = last.pre.servers
    /\ ch.sorted_keys = last.pre.sorted_keys

\* An add has just failed on a full ring after it had claimed a slot.
C8_Witness ==
  /\ last.op = "add" /\ ~last.ret
  /\ last.id \notin DOMAIN last.pre.servers
  /\ \E i \in Slots(last.pre) : last.pre.ring[i] = None

(* C9: with ConsistentHash() as coded (512 slots, 200 virtual servers)     *)
(* and the three start-up spawns successful, /rep reports the three names  *)
(* and each of them holds cells and is the lookup of some fingerprint.     *)
(* 3 * 200 > 512: add_server("Server_3") fails and Server_3 holds nothing. *)
C9_DefaultFleetServed ==
  (pc["boot"] = "done" /\ lock = Free /\ servers = InitialNames) =>
    \A s \in Range(servers) :
      /\ CellsOf(ch, s) # {}
      /\ \E f \in Slots(ch) : get_server_at(ch, f) = s

(* C10: with ticks that keep coming, spawns that eventually succeed and no *)
(* admin request, a fleet that had n backends between two ticks has n      *)
(* backends again later, whatever failed in between.  The code does not    *)
(* retry a replacement whose spawn failed: the fleet stays one short.      *)
C10_FleetSizeRestored ==
  \A n \in 1 .. Len(InitialNames) :
    []((pc["health"] = "sleep" /\ Len(servers) = n) => []<>(Len(servers) >= n))

(* C11: failure replacement.  When a health check that found unhealthy     *)
(* backends ends and every replacement spawn of it has succeeded (as many  *)
(* new names in the registry as failed backends), no failed backend X is   *)
(* in the registry or holds a cell or a slot record of the ring, and the   *)
(* registry has as many backends as the snapshot taken when the check      *)
(* began, which is the N that GET /rep reported before it.                 *)
C11_FailureReplaced ==
  [][ ( /\ pc["health"] = "spawn"
        /\ pc'["health"] = "sleep"
        /\ Cardinality(Range(servers') \ Range(health.snapshot)) = Len(health.failed) )
      => /\ \A X \in Range(health.failed) :
              /\ X \notin Range(servers')
              /\ X \notin RingOwners(ch')
              /\ X \notin DOMAIN ch'.servers
         /\ Len(servers') = Len(health.snapshot)
         /\ lock' = Free ]_vars

\* A health check has ended after a crash, without any admin request and
\* without a failed spawn: a start-up backend is gone, a generated name is in
\* the registry, and the fleet has three backends again.
C11_Witness ==
  /\ pc["health"] = "sleep" /\ lock = Free
  /\ budget.crashes < MaxCrashes
  /\ budget.requests = MaxAdminRequests
  /\ budget.failed_runs = MaxFailedRuns
  /\ \E X \in Range(InitialNames) : X \notin Range(servers) \cup RingOwners(ch)
  /\ \E s \in Range(RandomNames) : s \in Range(servers)
  /\ Len(servers) = Len(InitialNames)

(* C12: while DELETE /rm removes a backend, its container is removed only  *)
(* after the ring has been purged of its cells: when the container has     *)
(* just been removed, the ring maps no cell to the backend.  The code      *)
(* removes the container first, then purges the ring, then drops the       *)
(* registry entry.                                                         *)
C12_RingPurgedBeforeContainer ==
  pc["admin"] = "rm_purge" =>
    CellsOf(ch, admin.servers_to_remove[admin.i + 1]) = {}

\* The backend that thread t looked up is gone from the instance it was
\* looked up in (registry and ring) and its container is removed.
Removed(t) ==
  /\ handler[t].server \notin Range(instances[handler[t].from].servers)
  /\ handler[t].server \notin RingOwners(instances[handler[t].from].ch)
  /\ handler[t].server \notin containers

InBlock(t) ==
  handler[t].pc \in {"spawn", "register", "ring_add", "select", "rm_check",
                     "ring_remove", "delete", "lookup", "proxy", "reply"}

(* C14: the handlers' reads and writes of the registry and the ring are    *)
(* mutually exclusive: no two threads are inside "with lb.lock" together,  *)
(* and a thread that has just taken the lock for a lookup or for /rep      *)
(* finds the registry and the ring's slot records on the same backends.    *)
(* Two first requests that both see "lb is None" build two instances with  *)
(* two locks, and both run their blocks on the instance lb names last.     *)
C14_MutualExclusion ==
  /\ \A t1, t2 \in Handlers : (InBlock(t1) /\ InBlock(t2)) => t1 = t2
  /\ \A t \in Handlers :
       (handler[t].pc = "lookup" \/ (handler[t].pc = "reply" /\ handler[t].kind = "rep"))
         => /\ Range(instances[lb].servers) = DOMAIN instances[lb].ch.servers
            /\ Range(instances[lb].servers) = RingOwners(instances[lb].ch)

(* C15: when DELETE /rm with a body {n, hostnames}, len(hostnames) <= n,   *)
(* replies, the registry has max(N - n, 0) backends, N being its size when *)
(* the request took the lock.  A hostname listed twice is kept twice in    *)
(* servers_to_remove and counted twice against n, and removed once: the    *)
(* fleet keeps more than N - n backends.                                   *)
C15_RmRemovesN ==
  [][ (pc["admin"] = "rm" /\ pc'["admin"] = "idle")
        => Len(servers') = Max(Len(admin.before) - admin.n, 0) ]_vars

(* C16: when POST /add with a body {n, hostnames}, len(hostnames) <= n,    *)
(* replies, N (the size of the registry) is its size when the request took *)
(* the lock plus the number of distinct names, not in the registry then,   *)
(* whose spawn succeeded, and every name whose spawn succeeded is among    *)
(* the replicas; a failed spawn adds nothing.                              *)
C16_AddReportsNewNames ==
  [][ (pc["admin"] = "add" /\ pc'["admin"] = "idle")
        => /\ Len(servers') =
                Len(admin.before) + Cardinality(admin.spawned \ Range(admin.before))
           /\ admin.spawned \subseteq Range(servers')
           /\ Range(admin.before) \subseteq Range(servers')
           /\ reply' = [to |-> "admin", status |-> 200] ]_vars

\* POST /add {"n": 2, "hostnames": ["TestServer1", "TestServer2"]} on the
\* three start-up backends has replied: five backends, both names included.
C16_Witness ==
  /\ reply = [to |-> "admin", status |-> 200]
  /\ pc["admin"] = "idle" /\ lock = Free
  /\ budget.requests = MaxAdminRequests - 1
  /\ Range(servers) = Range(InitialNames) \cup HostNames
  /\ Len(servers) = 5

C18_AddRemoveRoundTrip ==
  \A x \in RingIds :
    x \notin DOMAIN ch.servers =>
      \A r \in {add_server(ch, x)} :
        r.ret => remove_server(r.obj, x) = [obj |-> ch, ret |-> TRUE]

\* The last call removed a server from a ring that holds others, and the
\* ring it removed it from is the one add_server builds from this state,
\* with a replica of the server moved by the probe.
C18_Witness ==
  /\ last.op = "remove"
  /\ last.ret
  /\ DOMAIN ch.servers # {}
  /\ add_server(ch, last.id) = [obj |-> last.pre, ret |-> TRUE]
  /\ \E j \in 0 .. ch.virtual_servers - 1 :
       last.pre.servers[last.id][j + 1] # _hash_virtual_server(ch, last.id, j)

(* C19: idempotence.  add_server of a server that is in the ring returns   *)
(* False and remove_server of a server that is not in it returns False,    *)
(* both without changing the object; so add_server twice is add_server     *)
(* once.                                                                   *)
C19_Idempotence ==
  \A x \in RingIds :
    /\ x \in DOMAIN ch.servers => add_server(ch, x) = [obj |-> ch, ret |-> FALSE]
    /\ x \notin DOMAIN ch.servers => remove_server(ch, x) = [obj |-> ch, ret |-> FALSE]
    /\ \A r \in {add_server(ch, x)} : add_server(r.obj, x).obj = r.obj

\* The last call added a server that was already in the ring, with replicas
\* moved by the probe, next to a server that is not in it.
C19_Witness ==
  /\ last.op = "add"
  /\ last.id \in DOMAIN last.pre.servers
  /\ ~last.ret
  /\ ch = last.pre
  /\ \E j \in 0 .. ch.virtual_servers - 1 :
       ch.servers[last.id][j + 1] # _hash_virtual_server(ch, last.id, j)
  /\ RingIds \ DOMAIN ch.servers # {}

(* C20: replica count.  After every sequence of add_server and             *)
(* remove_server calls, every backend recorded in the ring has exactly     *)
(* virtual_servers recorded slots, pairwise distinct, and owns exactly     *)
(* these cells, also when its replica hashes collide with each other or    *)
(* with the cells of other backends.                                       *)
C20_ReplicaCount ==
  \A id \in DOMAIN ch.servers :
    /\ Len(ch.servers[id]) = ch.virtual_servers
    /\ Cardinality(Range(ch.servers[id])) = ch.virtual_servers
    /\ Cardinality(CellsOf(ch, id)) = ch.virtual_servers

\* The last call recorded a backend two of whose replicas hash to the same
\* slot, and another one of whose hashed slots was held by another backend.
C20_Witness ==
  /\ last.op = "add" /\ last.ret
  /\ \E j, k \in 0 .. ch.virtual_servers - 1 :
       /\ j # k
       /\ _hash_virtual_server(ch, last.id, j) = _hash_virtual_server(ch, last.id, k)
  /\ \E id \in DOMAIN ch.servers, j \in 0 .. ch.virtual_servers - 1 :
       /\ id # last.id
       /\ last.pre.ring[_hash_virtual_server(ch, id, j)] \notin {None, id}
       /\ id \in DOMAIN last.pre.servers

(* C21: after every add_server or remove_server call, whatever it returns, *)
(* sorted_keys is the strictly increasing list of the positions whose ring *)
(* cell is not empty.                                                      *)
C21_SortedIndex ==
  /\ Range(ch.sorted_keys) = {i \in Slots(ch) : ch.ring[i] # None}
  /\ \A i, k \in DOMAIN ch.sorted_keys :
       i < k => ch.sorted_keys[i] < ch.sorted_keys[k]

\* The last call is an add that failed on a full ring after claiming a cell
\* and rolling it back, with occupied and empty cells in the ring.
C21_Witness ==
  /\ ch.sorted_keys # << >>
  /\ last.op = "add" /\ ~last.ret
  /\ last.id \notin DOMAIN last.pre.servers
  /\ \E i \in Slots(last.pre) : last.pre.ring[i] = None
  /\ Len(ch.sorted_keys) < ch.slots

(* C22: get_server returns None exactly when no ring cell is occupied, and *)
(* a routed GET is answered 500 ("<Error> No servers available"), without  *)
(* going to the upstream call, exactly when its lookup returned None.      *)
C22_NoServers500 ==
  [][ /\ \A request_id \in RequestIds :
           (get_server(ch, request_id) = None) <=> (CellsOf(ch, None) = Slots(ch))
      /\ \A r \in Routers, request_id \in RequestIds :
           RouteLookup(r, request_id)
             => ( (reply' = [to |-> r, status |-> 500] /\ pc'[r] = "idle")
                   <=> (get_server(ch, request_id) = None) ) ]_vars

\* A routed GET has been answered 500 on an emptied ring.
C22_Witness ==
  /\ reply = [to |-> "r1", status |-> 500]
  /\ pc["boot"] = "done"
  /\ CellsOf(ch, None) = Slots(ch)
  /\ pc["r1"] = "idle"

(* C23: add_server of a backend that is not in the ring fails exactly when *)
(* fewer than virtual_servers cells are empty; so it succeeds again once   *)
(* removals have freed that many cells.                                    *)
C23_RingFullOnlyWhenFull ==
  \A x \in RingIds :
    x \notin DOMAIN ch.servers =>
      ( add_server(ch, x).ret
          <=> Cardinality(CellsOf(ch, None)) >= ch.virtual_servers )

\* A backend whose add had failed on a full ring has been added after a
\* removal freed cells: the last call removed a backend, before it the add
\* of some absent backend failed, and now it succeeds by probing.
C23_Witness ==
  /\ last.op = "remove" /\ last.ret
  /\ \E x \in RingIds \ DOMAIN last.pre.servers :
       /\ ~add_server(last.pre, x).ret
       /\ add_server(ch, x).ret
       /\ ch.ring[_hash_virtual_server(ch, x, 0)] # None

(* C24: in a DELETE /rm with at most n hostnames, every named hostname     *)
(* that was in the registry is removed, the random fill picks only         *)
(* backends of the registry that were not named, and at most n backends    *)
(* are removed in all.                                                     *)
C24_RmRemovesNamedAndFill ==
  [][ (pc["admin"] = "rm" /\ pc'["admin"] = "idle")
        => LET named   == Range(admin.hostnames)
               before  == Range(admin.before)
               removed == before \ Range(servers')
               picked  == Len(SelectSeq(admin.hostnames, LAMBDA h : h \in before))
           IN  /\ named \cap before \subseteq removed
               /\ Range(servers') \subseteq before
               /\ \A i \in picked + 1 .. Len(admin.servers_to_remove) :
                    /\ admin.servers_to_remove[i] \notin named
                    /\ admin.servers_to_remove[i] \in before
               /\ removed \subseteq Range(admin.servers_to_remove)
               /\ Cardinality(removed) <= admin.n
               /\ Len(admin.servers_to_remove) <= admin.n ]_vars

\* A removal that named one backend of the registry and filled up with
\* another has removed both.
C24_Witness ==
  /\ pc["admin"] = "rm"
  /\ admin.i = Len(admin.servers_to_remove)
  /\ \E h \in Range(admin.hostnames) : h \in Range(admin.before)
  /\ \E s \in Range(admin.servers_to_remove) : s \notin Range(admin.hostnames)
  /\ Range(admin.servers_to_remove) \cap Range(servers) = {}
  /\ Len(servers) < Len(admin.before)

(* C25: at start-up, in POST /add and in the health check alike, a name    *)
(* enters the registry or the ring only in a step whose spawn of that name *)
(* succeeded, so that its container runs; a spawn that failed inserts      *)
(* nothing into the registry or the ring.                                  *)
C25_RegisteredAfterSpawn ==
  [][ /\ \A name \in Names :
           ( \/ name \notin Range(servers) /\ name \in Range(servers')
             \/ name \notin DOMAIN ch.servers /\ name \in DOMAIN ch'.servers )
             => /\ name \in containers'
                /\ budget'.failed_runs = budget.failed_runs
      /\ budget'.failed_runs < budget.failed_runs
           => /\ Range(servers') \subseteq Range(servers)
              /\ DOMAIN ch'.servers \subseteq DOMAIN ch.servers ]_vars

\* Start-up has registered Server_2 after the spawn of Server_1 failed, and
\* Server_1 is in neither the registry nor the ring.
C25_Witness ==
  /\ pc["boot"] = "init"
  /\ boot = 3
  /\ budget.failed_runs < MaxFailedRuns
  /\ "Server_1" \notin Range(servers) \cup DOMAIN ch.servers \cup containers
  /\ "Server_2" \in Range(servers) \cap DOMAIN ch.servers \cap containers

(* C26: the global load balancer is created at most once: at most one      *)
(* LoadBalancer instance (registry, ring, lock, initial containers, health *)
(* thread) exists, and every lock a handler holds is the lock of the       *)
(* instance lb names.  initialize_lb tests and assigns lb without a lock:  *)
(* two first requests that both find lb None construct one instance each.  *)
C26_CreatedOnce ==
  /\ Len(instances) <= 1
  /\ \A t \in Handlers : handler[t].held \in {NoInstance, lb}

(* C27: a round of the loop of POST /add leaves every backend of the       *)
(* registry whose container runs with its container running, and so never *)
(* leaves in the registry a name whose container a failed spawn removed.   *)
(* _spawn_server starts with "docker rm -f name" whatever the name: for a  *)
(* hostname that is a registered backend the running container is removed, *)
(* and when "docker run" then fails the name stays in registry and ring.   *)
C27_AddKeepsRunningBackends ==
  [][ (pc["admin"] = "add" /\ admin'.i = admin.i + 1)
        => \A s \in Range(servers) \cap containers :
             s \in Range(servers') => s \in containers' ]_vars

(* C28: stability under addition.  In every state of the ring, for every   *)
(* backend y that is not in it and every fingerprint f, after a successful *)
(* add_server(y) the lookup of f gives what it gave before, or y: no       *)
(* fingerprint moves between two backends that were there before, replicas *)
(* placed by the probe included.                                           *)
C28_StableUnderAddition ==
  \A y \in RingIds :
    y \notin DOMAIN ch.servers =>
      \A r \in {add_server(ch, y)} :
        r.ret => \A f \in Slots(ch) :
                   get_server_at(r.obj, f) \in {get_server_at(ch, f), y}

\* The last call added a backend, one of its replicas moved by the probe, to
\* a ring of two backends or more; some fingerprint went to it and some
\* fingerprint stayed where it was.
C28_Witness ==
  /\ last.op = "add" /\ last.ret
  /\ Cardinality(DOMAIN last.pre.servers) >= 2
  /\ \E j \in 0 .. ch.virtual_servers - 1 :
       ch.servers[last.id][j + 1] # _hash_virtual_server(ch, last.id, j)
  /\ \E f \in Slots(ch) : get_server_at(ch, f) = last.id
  /\ \E f \in Slots(ch) : get_server_at(ch, f) = get_server_at(last.pre, f)
  /\ \A f \in Slots(ch) :
       get_server_at(ch, f) \in {get_server_at(last.pre, f), last.id}

\* Whether slot is the first cell, scanning start, start + 1, ... modulo the
\* ring's size, that is empty in self and not among taken.
FirstEmptyFrom(self, taken, start, slot) ==
  LET empty(i) == self.ring[i] = None /\ i \notin taken
      distance == (slot - start) % self.slots
  IN  /\ empty(slot)
      /\ \A e \in 0 .. distance - 1 : ~empty((start + e) % self.slots)

(* C29: in a successful add_server(x), replica j = 0..K-1 in this order is *)
(* placed in the first empty cell found scanning forward, modulo slots,    *)
(* from its hashed slot (the hashed slot itself when it is empty), the     *)
(* cells of replicas 0..j-1 being taken; and _find_next_slot reports no    *)
(* slot only when every cell of the ring is occupied.                      *)
C29_LinearProbing ==
  /\ \A x \in RingIds :
       x \notin DOMAIN ch.servers =>
         \A r \in {add_server(ch, x)} :
           r.ret =>
             \A j \in 0 .. ch.virtual_servers - 1 :
               FirstEmptyFrom(ch, {r.obj.servers[x][k] : k \in 1 .. j},
                              _hash_virtual_server(ch, x, j),
                              r.obj.servers[x][j + 1])
  /\ \A start_slot \in Slots(ch) :
       (_find_next_slot(ch, start_slot) = NoSlot) <=> (CellsOf(ch, None) = {})

\* The last call added a backend one of whose replicas the probe placed
\* past the end of the ring, in a cell before its hashed slot, after passing
\* two occupied cells or more.
C29_Witness ==
  /\ last.op = "add" /\ last.ret
  /\ \E j \in 0 .. ch.virtual_servers - 1 :
       /\ ch.servers[last.id][j + 1] < _hash_virtual_server(ch, last.id, j)
       /\ (ch.servers[last.id][j + 1] - _hash_virtual_server(ch, last.id, j))
            % ch.slots >= 2
       /\ FirstEmptyFrom(last.pre, {ch.servers[last.id][k] : k \in 1 .. j},
                         _hash_virtual_server(ch, last.id, j),
                         ch.servers[last.id][j + 1])

\* The cells that differ between two rings go from empty to id, or, when
\* cleared is allowed, from id to empty.
OnlyClaimsAndClears(before, after, id, claims, clears) ==
  \A i \in DOMAIN before :
    after[i] # before[i] =>
      \/ claims /\ before[i] = None /\ after[i] = id
      \/ clears /\ before[i] = id /\ after[i] = None

(* C30: in every step of every operation a ring cell changes only from     *)
(* empty to the backend being added or from the backend being removed (or  *)
(* rolled back) to empty, never from one backend to another: in every      *)
(* add_server and remove_server call, and in every round of the loop of    *)
(* add_server, the rollback included.  No cell is in the slot records of   *)
(* two backends.                                                           *)
C30_CellsClaimedAndCleared ==
  [][ /\ OnlyClaimsAndClears(ch.ring, ch'.ring, last'.id,
                             last'.op = "add", last'.op = "remove")
      /\ \A x \in RingIds :
           x \notin DOMAIN ch.servers =>
             \A j \in 0 .. ch.virtual_servers - 1 :
               \A st \in {AddLoop([obj |-> ch, virtual_slots |-> << >>,
                                    full |-> FALSE], x, 0, j)} :
                 \A nx \in {AddStep(st, x, j)} :
                   OnlyClaimsAndClears(st.obj.ring, nx.obj.ring, x,
                                       ~nx.full, nx.full)
      /\ \A a, b \in DOMAIN ch'.servers :
           a # b => Range(ch'.servers[a]) \cap Range(ch'.servers[b]) = {}
    ]_vars

\* The last call added a backend one of whose replicas hashes to a cell that
\* another backend held and still holds, and an add of another backend to
\* this ring fails after claiming a cell.
C30_Witness ==
  /\ last.op = "add" /\ last.ret
  /\ \E j \in 0 .. ch.virtual_servers - 1 :
       /\ last.pre.ring[_hash_virtual_server(ch, last.id, j)] \notin {None, last.id}
       /\ ch.ring[_hash_virtual_server(ch, last.id, j)]
            = last.pre.ring[_hash_virtual_server(ch, last.id, j)]
  /\ \E x \in RingIds \ DOMAIN ch.servers :
       /\ ~add_server(ch, x).ret
       /\ CellsOf(ch, None) # {}

\* The backends whose probe of the running health check returned 200.
ProbedHealthy ==
  IF pc["health"] = "probe"
  THEN {health.snapshot[k] : k \in 1 .. health.idx - 1} \ Range(health.failed)
  ELSE IF pc["health"] \in {"remove", "purge", "spawn"}
  THEN Range(health.snapshot) \ Range(health.failed)
  ELSE {}

(* C31: the health check removes from the registry and the ring only       *)
(* backends whose probe in this run did not return 200.  A probe that      *)
(* returns 200 does not put its backend on the list of failed servers, and *)
(* in every step of the run a backend whose probe returned 200 keeps its   *)
(* registry entry, its ring cells and its slot record, whatever is done to *)
(* the others.                                                             *)
C31_HealthyKept ==
  [][ /\ (pc["health"] = "probe" /\ Probe(health.snapshot[health.idx]))
           => Range(health'.failed) = Range(health.failed)
      /\ \A s \in ProbedHealthy :
           /\ s \in Range(servers')
           /\ CellsOf(ch', s) = CellsOf(ch, s)
           /\ (s \in DOMAIN ch.servers) <=> (s \in DOMAIN ch'.servers)
           /\ s \in DOMAIN ch.servers => ch'.servers[s] = ch.servers[s]
      /\ pc["health"] \in {"probe", "remove", "purge", "spawn"}
           => /\ Range(servers) \ Range(servers') \subseteq Range(health.failed)
              /\ DOMAIN ch.servers \ DOMAIN ch'.servers \subseteq Range(health.failed)
    ]_vars

\* A health check that found one backend failed and others healthy has
\* purged the failed one and is about to spawn its replacement; the healthy
\* ones are in the registry and hold ring cells.
C31_Witness ==
  /\ pc["health"] = "spawn"
  /\ health.failed[health.idx] \notin Range(servers) \cup RingOwners(ch)
  /\ Cardinality(ProbedHealthy) >= 2
  /\ \A s \in ProbedHealthy : s \in Range(servers) /\ CellsOf(ch, s) # {}

============================================================================
